---- MODULE Spec2Model ----
(***************************************************************************)
(* Model of the training tab (modules/tabs/training.py: the generator      *)
(* Training.ui.train behind the Train button) and of the checkpoint        *)
(* packager (modules/training/checkpoints.py: write_config and save).      *)
(*                                                                         *)
(* Text.  A Python str is modelled as a sequence of symbols.  A symbol is  *)
(* either one of the delimiter characters "/", ".", "|", "\n" or a word: a *)
(* maximal run of other characters, kept as one TLA+ string.  Cat keeps    *)
(* the words maximal, so two sequences are equal exactly when the strings  *)
(* are.  The keys of a checkpoint are modelled character by character,     *)
(* because the code looks for a substring in them.                         *)
(***************************************************************************)
EXTENDS Integers, Sequences, FiniteSets, TLC

VARIABLES
    MODELS_DIR,          \* modules.shared.MODELS_DIR, the models root
    model_name,          \* the Model Name textbox
    dirs,                \* file system: the directories that exist
    files,               \* file system: path -> content of the files that exist
    pc,                  \* where the generator train stands
    target_sr,           \* arguments of the running train call
    has_pitch_guidance,
    training_dir,        \* the local training_dir of the running train call
    speaker_id,
    ignore_cache,
    trace,               \* what the call has done so far: yields, calls, returns
    status,              \* the Status textbox: the last value streamed to it
    retval,              \* the value carried by the generator's return
    fault,               \* the exception that ended the call, if any
    replaced,            \* the manifest write dropped a line of an older filelist.txt
    ckpts,               \* checkpoints written by save: path -> record
    last,                \* the latest save call: << >> or <<its arguments>>
    ref                  \* an earlier save call and what it persisted, kept for comparison

vars == <<MODELS_DIR, model_name, dirs, files, pc, target_sr, has_pitch_guidance,
          training_dir, speaker_id, ignore_cache, trace, status, retval, fault, replaced,
          ckpts, last, ref>>

trainVars == <<MODELS_DIR, model_name, dirs, files, pc, target_sr, has_pitch_guidance,
               training_dir, speaker_id, ignore_cache, trace, status, retval, fault, replaced>>

saveVars == <<ckpts, last, ref>>

None == <<"None">>

(***************************************************************************)
(* Text                                                                    *)
(***************************************************************************)
Delims == {"/", ".", "|", "\n"}

IsWord(c) == c \notin Delims

\* s + t of two str
Cat(s, t) ==
    IF s = <<>> THEN t
    ELSE IF t = <<>> THEN s
    ELSE IF IsWord(s[Len(s)]) /\ IsWord(t[1])
         THEN SubSeq(s, 1, Len(s) - 1) \o <<s[Len(s)] \o t[1]>> \o Tail(t)
         ELSE s \o t

\* index of the first symbol c in s, or Len(s) + 1
RECURSIVE Find(_, _, _)
Find(s, c, i) ==
    IF i > Len(s) THEN i
    ELSE IF s[i] = c THEN i
    ELSE Find(s, c, i + 1)

\* s.split(c): the fields between the occurrences of c; always at least one
RECURSIVE Split(_, _)
Split(s, c) ==
    LET i == Find(s, c, 1)
    IN  IF i > Len(s) THEN <<s>>
        ELSE <<SubSeq(s, 1, i - 1)>> \o Split(SubSeq(s, i + 1, Len(s)), c)

\* c.join(parts)
RECURSIVE StrJoin(_, _)
StrJoin(c, parts) ==
    IF parts = <<>> THEN <<>>
    ELSE IF Len(parts) = 1 THEN parts[1]
    ELSE Cat(Cat(parts[1], <<c>>), StrJoin(c, Tail(parts)))

Digit(d) == CASE d = 0 -> "0" [] d = 1 -> "1" [] d = 2 -> "2" [] d = 3 -> "3"
              [] d = 4 -> "4" [] d = 5 -> "5" [] d = 6 -> "6" [] d = 7 -> "7"
              [] d = 8 -> "8" [] d = 9 -> "9"

\* str(n) of an int n >= 0, one word
RECURSIVE IntToStr(_)
IntToStr(n) == IF n < 10 THEN Digit(n) ELSE IntToStr(n \div 10) \o Digit(n % 10)

\* os.path.join(a, b): an absolute b drops a
PathJoin(a, b) ==
    IF b # <<>> /\ b[1] = "/" THEN b
    ELSE IF a = <<>> \/ a[Len(a)] = "/" THEN Cat(a, b)
    ELSE Cat(Cat(a, <<"/">>), b)

\* index of the last "/" of p, or 0
RECURSIVE LastSep(_, _)
LastSep(p, i) ==
    IF i = 0 THEN 0
    ELSE IF p[i] = "/" THEN i
    ELSE LastSep(p, i - 1)

\* p.rstrip("/")
RECURSIVE RStrip(_)
RStrip(p) == IF p # <<>> /\ p[Len(p)] = "/" THEN RStrip(SubSeq(p, 1, Len(p) - 1)) ELSE p

\* os.path.dirname(p): the head up to the last "/", without its trailing "/"
\* unless it is made of "/" only
Dirname(p) ==
    LET head == SubSeq(p, 1, LastSep(p, Len(p)))
    IN  IF RStrip(head) = <<>> THEN head ELSE RStrip(head)

\* os.path.basename(p)
Basename(p) == SubSeq(p, LastSep(p, Len(p)) + 1, Len(p))

(***************************************************************************)
(* File system: dirs maps every directory to the names of its entries,     *)
(* files maps the text files to their content; both are keyed by resolved  *)
(* paths: absolute, without "." and ".." components, without repeated or   *)
(* trailing "/".  An entry of a listing that is no directory is a regular  *)
(* file.  There are no symbolic links, and the working directory is "/".   *)
(***************************************************************************)
Restrict(f, S) == [x \in S |-> f[x]]

\* why a path does not resolve
ENOENT == <<"ENOENT">>
ENOTDIR == <<"ENOTDIR">>

\* the exception of an errno
ErrnoError(r) == IF r = ENOTDIR THEN <<"NotADirectoryError">> ELSE <<"FileNotFoundError">>

\* the resolved path n is a regular file of ds
FileIn(ds, n) == /\ n # <<>>
                 /\ n \notin DOMAIN ds
                 /\ Dirname(n) \in DOMAIN ds
                 /\ Basename(n) \in ds[Dirname(n)]

\* the entry named c of the resolved directory cur
Child(cur, c) == IF cur = <<"/">> THEN Cat(cur, c) ELSE Cat(Cat(cur, <<"/">>), c)

\* path resolution from the resolved path cur along the components comps: every
\* component, "", "." and ".." included, is looked up in a directory that has to
\* exist; only the last one may name a missing entry
RECURSIVE Walk(_, _, _)
Walk(ds, cur, comps) ==
    IF comps = <<>> THEN cur
    ELSE IF cur \notin DOMAIN ds THEN (IF FileIn(ds, cur) THEN ENOTDIR ELSE ENOENT)
    ELSE LET c == Head(comps)
         IN  Walk(ds,
                  IF c = <<>> \/ c = <<".">> THEN cur
                  ELSE IF c = <<".", ".">> THEN Dirname(cur)
                  ELSE Child(cur, c),
                  Tail(comps))

\* the resolved path the file system ds finds for p, or ENOENT, ENOTDIR
Resolve(ds, p) == IF p = <<>> THEN ENOENT ELSE Walk(ds, <<"/">>, Split(p, "/"))

\* the resolved path p lies under the resolved path d
Below(p, d) ==
    /\ p # d
    /\ \/ d = <<"/">> /\ p # <<>> /\ p[1] = "/"
       \/ /\ Len(p) > Len(d) + 1
          /\ SubSeq(p, 1, Len(d)) = d
          /\ p[Len(d) + 1] = "/"

\* the entry p names is the one d names or lies under it
UnderAt(rp, rd) == rd \notin {ENOENT, ENOTDIR} /\ (rp = rd \/ Below(rp, rd))
Under(p, d) == UnderAt(Resolve(dirs, p), Resolve(dirs, d))

\* os.path.isdir(p)
IsDir(p) == Resolve(dirs, p) \in DOMAIN dirs

\* os.path.isfile(p)
IsFile(p) == FileIn(dirs, Resolve(dirs, p))

\* os.path.exists(p) in the file system ds
ExistsAt(ds, r) == r \in DOMAIN ds \/ FileIn(ds, r)
ExistsIn(ds, p) == ExistsAt(ds, Resolve(ds, p))

\* os.path.exists(p)
Exists(p) == ExistsIn(dirs, p)

\* os.listdir(d) of an existing directory d
ListDir(d) == dirs[Resolve(dirs, d)]

\* what os.listdir(d) raises, or None; r is what d resolves to
ListdirErrorAt(r) ==
    IF r \in DOMAIN dirs THEN None
    ELSE IF r = ENOTDIR \/ FileIn(dirs, r) THEN <<"NotADirectoryError">>
    ELSE <<"FileNotFoundError">>
ListdirError(d) == ListdirErrorAt(Resolve(dirs, d))

\* a file system with the root directory only
RootOnly == <<"/">> :> {}

\* ds with the entry name added to the listing of directory d, if ds has d
AddEntry(ds, d, name) ==
    IF d \in DOMAIN ds THEN [ds EXCEPT ![d] = @ \cup {name}] ELSE ds

\* os.mkdir(name) in ds: the directories after it and what it raises, or None;
\* trailing "/" are allowed, and a last component "." or ".." names a
\* directory that exists already; r is what name without them resolves to
MkdirAt(ds, r) ==
    IF r \in {ENOENT, ENOTDIR} THEN [ds |-> ds, err |-> ErrnoError(r)]
    ELSE IF r \in DOMAIN ds \/ FileIn(ds, r) THEN [ds |-> ds, err |-> <<"FileExistsError">>]
    ELSE [ds |-> AddEntry(ds, Dirname(r), Basename(r)) @@ (r :> {}), err |-> None]
Mkdir(ds, name) ==
    MkdirAt(ds, Resolve(ds, IF RStrip(name) = <<>> /\ name # <<>> THEN <<"/">> ELSE RStrip(name)))

\* the end of makedirs: the error of mkdir is passed over when name is a
\* directory all the same
MkdirExistOk(made, name) ==
    IF made.err # None /\ Resolve(made.ds, name) \in DOMAIN made.ds
    THEN [ds |-> made.ds, err |-> None]
    ELSE made

\* makedirs after the head: sub is what making the head gave (only a
\* FileExistsError of it is passed over), and with stop nothing is left to make
MakedirsTail(sub, name, stop) ==
    IF sub.err \notin {None, <<"FileExistsError">>} THEN sub
    ELSE IF stop THEN [ds |-> sub.ds, err |-> None]
    ELSE MkdirExistOk(Mkdir(sub.ds, name), name)

\* os.makedirs(name, exist_ok=True) in ds: split name into head and tail, make
\* the head first when it does not exist, stop there when the tail is ".",
\* then mkdir(name)
RECURSIVE MakedirsRun(_, _)
MakedirsSplit(ds, name, head, tail, descend) ==
    MakedirsTail(IF descend THEN MakedirsRun(ds, head) ELSE [ds |-> ds, err |-> None],
                 name, descend /\ tail = <<".">>)
MakedirsFrom(ds, name, head, tail) ==
    MakedirsSplit(ds, name, head, tail, head # <<>> /\ tail # <<>> /\ ~ExistsIn(ds, head))
MakedirsRun(ds, name) ==
    IF Basename(name) = <<>>
    THEN MakedirsFrom(ds, name, Dirname(Dirname(name)), Basename(Dirname(name)))
    ELSE MakedirsFrom(ds, name, Dirname(name), Basename(name))

\* the directories after os.makedirs(d, exist_ok=True), and what it raises
Makedirs(ds, d) == MakedirsRun(ds, d).ds
MakedirsError(ds, d) == MakedirsRun(ds, d).err

\* shutil.rmtree(d): the directories and text files after it and what it raises,
\* or None.  A path that does not resolve or names a regular file raises at
\* once.  Otherwise everything below the directory is removed, then rmdir(d)
\* removes the directory unless d, followed again, goes through something that
\* was removed, or ends in "." or "..", or names "/".
\* r is what d resolves to, ds and fs are what is left with r emptied, again
\* is what d resolves to then
Rmdir(d, r, ds, fs, again) ==
    IF again \in {ENOENT, ENOTDIR} THEN [ds |-> ds, fs |-> fs, err |-> ErrnoError(again)]
    ELSE IF Basename(RStrip(d)) \in {<<".">>, <<".", ".">>} \/ r = <<"/">>
         THEN [ds |-> ds, fs |-> fs, err |-> <<"OSError">>]
    ELSE [ds |-> [Restrict(ds, DOMAIN ds \ {r}) EXCEPT ![Dirname(r)] = @ \ {Basename(r)}],
          fs |-> fs, err |-> None]
RmtreeEmptied(d, r, ds) ==
    Rmdir(d, r, ds, Restrict(files, {q \in DOMAIN files : ~Below(q, r)}), Resolve(ds, d))
RmtreeAt(d, r) ==
    IF r \in {ENOENT, ENOTDIR} THEN [ds |-> dirs, fs |-> files, err |-> ErrnoError(r)]
    ELSE IF r \notin DOMAIN dirs
         THEN [ds |-> dirs, fs |-> files,
               err |-> IF FileIn(dirs, r) THEN <<"NotADirectoryError">>
                       ELSE <<"FileNotFoundError">>]
    ELSE RmtreeEmptied(d, r, [q \in {q \in DOMAIN dirs : ~Below(q, r)} |->
                                  IF q = r THEN {} ELSE dirs[q]])
RmtreeRun(d) == RmtreeAt(d, Resolve(dirs, d))

RmtreeDirs(d) == RmtreeRun(d).ds
RmtreeFiles(d) == RmtreeRun(d).fs
RmtreeError(d) == RmtreeRun(d).err

(***************************************************************************)
(* The training tab: constants and paths                                   *)
(***************************************************************************)
SR_DICT == ("32k" :> 32000) @@ ("40k" :> 40000) @@ ("48k" :> 48000)

SpeakerMin == 0
SpeakerMax == 4

RECURSIVE PathJoinAll(_)
PathJoinAll(parts) ==
    IF Len(parts) = 1 THEN parts[1]
    ELSE PathJoin(PathJoinAll(SubSeq(parts, 1, Len(parts) - 1)), parts[Len(parts)])

\* line 47
TrainingDir(name) == PathJoinAll(<<MODELS_DIR, <<"training">>, <<"models">>, name>>)
gt_wavs_dir == PathJoin(training_dir, <<"0_gt_wavs">>)
co256_dir == PathJoin(training_dir, <<"3_feature256">>)
f0_dir == PathJoin(training_dir, <<"2a_f0">>)
f0nsf_dir == PathJoin(training_dir, <<"2b_f0nsf">>)
filelist_path == PathJoin(training_dir, <<"filelist", ".", "txt">>)

MuteDir(sub) == PathJoinAll(<<MODELS_DIR, <<"training">>, <<"mute">>, sub>>)

StatusDir(dir) == Cat(<<"Training directory: ">>, dir)
StatusPreprocessing == <<"Preprocessing", ".", ".", ".">>
StatusF0 == <<"Extracting f0", ".", ".", ".">>
StatusFeatures == <<"Extracting features", ".", ".", ".">>
StatusTraining == <<"Training", ".", ".", ".">>
TrainingCompleted == <<"Training completed">>

Yield(s) == <<"yield", s>>
Call(f) == <<"call", <<f>>>>
Return(f) == <<"return", <<f>>>>
Did(step) == <<"did", <<step>>>>
Raised(e) == <<"raise", e>>

(***************************************************************************)
(* The manifest                                                            *)
(***************************************************************************)
\* name.split(".")[0]
Ident(name) == Split(name, ".")[1]

IdentsOf(d) == {Ident(name) : name \in ListDir(d)}

\* as ManifestNames, with the 2b_f0nsf folder left out of the intersection
ManifestNamesNoNsf(pitch) ==
    IF pitch
    THEN (IdentsOf(gt_wavs_dir) \cap IdentsOf(co256_dir)) \cap IdentsOf(f0_dir)
    ELSE IdentsOf(gt_wavs_dir) \cap IdentsOf(co256_dir)

\* the set names of lines 69-80
ManifestNames(pitch) ==
    IF pitch
    THEN ((IdentsOf(gt_wavs_dir) \cap IdentsOf(co256_dir)) \cap IdentsOf(f0_dir))
            \cap IdentsOf(f0nsf_dir)
    ELSE IdentsOf(gt_wavs_dir) \cap IdentsOf(co256_dir)

GtWavPath(name) == PathJoin(gt_wavs_dir, Cat(name, <<".", "wav">>))
Co256Path(name) == PathJoin(co256_dir, Cat(name, <<".", "npy">>))
F0Path(name) == PathJoin(f0_dir, Cat(name, <<".", "wav", ".", "npy">>))
F0nsfPath(name) == PathJoin(f0nsf_dir, Cat(name, <<".", "wav", ".", "npy">>))

\* the line appended at lines 85-96
SampleLine(name, pitch, spk) ==
    IF pitch
    THEN StrJoin("|", <<GtWavPath(name), Co256Path(name), F0Path(name),
                        F0nsfPath(name), <<IntToStr(spk)>> >>)
    ELSE StrJoin("|", <<GtWavPath(name), Co256Path(name), <<IntToStr(spk)>> >>)

mute_gt_wav(sr) == PathJoin(MuteDir(<<"0_gt_wavs">>), Cat(Cat(<<"mute">>, <<sr>>), <<".", "wav">>))
mute_co256 == PathJoin(MuteDir(<<"3_feature256">>), <<"mute", ".", "npy">>)
mute_f0 == PathJoin(MuteDir(<<"2a_f0">>), <<"mute", ".", "wav", ".", "npy">>)
mute_f0nsf == PathJoin(MuteDir(<<"2b_f0nsf">>), <<"mute", ".", "wav", ".", "npy">>)

\* the line appended at lines 98-121
MuteLine(sr, pitch, spk) ==
    IF pitch
    THEN StrJoin("|", <<mute_gt_wav(sr), mute_co256, mute_f0, mute_f0nsf, <<IntToStr(spk)>> >>)
    ELSE StrJoin("|", <<mute_gt_wav(sr), mute_co256, <<IntToStr(spk)>> >>)

\* the orders in which "for name in names" can visit a set
Orders(S) == {o \in [1..Cardinality(S) -> S] : \A i, j \in 1..Cardinality(S) : o[i] = o[j] => i = j}

\* the list opt after lines 82-121, the names visited in the order o
Opt(o, sr, pitch, spk) ==
    [i \in 1..Len(o) |-> SampleLine(o[i], pitch, spk)] \o <<MuteLine(sr, pitch, spk)>>

\* the folders listed at lines 69-79, in the order of the listings
ListedSeq(pitch) == IF pitch THEN <<gt_wavs_dir, co256_dir, f0_dir, f0nsf_dir>>
                    ELSE <<gt_wavs_dir, co256_dir>>

\* open(path, "w") followed by f.write(text): the old content is gone
WriteFileAt(r, text) == [q \in DOMAIN files \cup {r} |-> IF q = r THEN text ELSE files[q]]
WriteFile(path, text) == WriteFileAt(Resolve(dirs, path), text)

\* what open(path, "w") raises, or None; r is what path resolves to
OpenErrorAt(r) ==
    IF r \in {ENOENT, ENOTDIR} THEN ErrnoError(r)
    ELSE IF r \in DOMAIN dirs THEN <<"IsADirectoryError">>
    ELSE None
OpenError(path) == OpenErrorAt(Resolve(dirs, path))

\* the text file path exists
HasText(path) == Resolve(dirs, path) \in DOMAIN files

\* the content of the text file path
ReadText(path) == files[Resolve(dirs, path)]

\* the lines a reader of the file gets
FileLines(path) == Split(ReadText(path), "\n")

\* text[:k], the first k characters of a text; the cut may fall inside a word
RECURSIVE Partial(_, _)
Partial(text, k) ==
    IF k = 0 \/ text = << >> THEN << >>
    ELSE IF Len(text[1]) <= k THEN <<text[1]>> \o Partial(Tail(text), k - Len(text[1]))
    ELSE <<SubSeq(text[1], 1, k)>>

(***************************************************************************)
(* What the model draws its inputs from                                    *)
(***************************************************************************)
NumSamples == 2
MaxWritten == 10

Roots == {<<"/", "m">>}
ModelNames == {<<"a">>, <<"a", "|", "b", "/">>, <<"a", "/", ".">>}
SrTags == {"40k", "16k"}
PitchChoices == {"Yes", "No"}
SpeakerIds == {SpeakerMin, SpeakerMax}

\* what is at the place of the training directory before the first click:
\* nothing, a regular file, or a regular file in place of the directory above
Preexisting == {"nothing", "file", "file above"}

\* what a failing write of text can leave in the file: the first k characters
\* for any k, here up to MaxWritten
Partials(text) == {Partial(text, k) : k \in 0..MaxWritten}

Sample(i) == <<"s" \o IntToStr(i)>>
ExtWav == <<".", "wav">>
ExtNpy == <<".", "npy">>
ExtWavNpy == <<".", "wav", ".", "npy">>
ExtMp3 == <<".", "mp3">>

Full(ext) == {Cat(Sample(i), ext) : i \in 1..NumSamples}
Rest(ext) == {Cat(Sample(i), ext) : i \in 2..NumSamples}
First(ext) == {Cat(Sample(1), ext)}

\* what an external stage may leave in its folder
Leaves(names) == [touched |-> TRUE, names |-> names]
Untouched == [touched |-> FALSE, names |-> {}]

GtOutputs == {Leaves(Full(ExtWav)), Leaves(Rest(ExtWav)),
              Leaves(Rest(ExtWav) \cup First(ExtMp3))}
F0Outputs == {<<Leaves(Full(ExtWavNpy)), Leaves(Full(ExtWavNpy))>>,
              <<Leaves(Rest(ExtWavNpy)), Leaves(Full(ExtWavNpy))>>,
              <<Leaves(Full(ExtWavNpy)), Leaves(Rest(ExtWavNpy))>>}
FeatureOutputs == {Leaves(Full(ExtNpy)), Leaves(First(ExtNpy)), Untouched}

(***************************************************************************)
(* The external stages of modules/training, as far as the tab sees them:  *)
(* a stage fills its output folder under the training directory.           *)
(***************************************************************************)
\* the directories after a stage has left exactly the entries out.names in folder d
FolderDirs(ds, d, out) == [q \in DOMAIN ds \cup {d} |-> IF q = d THEN out.names ELSE ds[q]]

\* a stage makes sure of folder d and leaves the entries out.names in it
StageLeavesAt(ds, r, out) ==
    IF out.touched /\ r \notin {ENOENT, ENOTDIR}
    THEN FolderDirs(AddEntry(ds, Dirname(r), Basename(r)), r, out)
    ELSE ds
StageLeaves(ds, d, out) == StageLeavesAt(ds, Resolve(ds, d), out)

(***************************************************************************)
(* Training.ui.train, one action per stretch between two suspensions or    *)
(* external calls                                                          *)
(***************************************************************************)
\* an exception leaves train: nothing in it catches one
Raise(e) ==
    /\ pc' = "aborted"
    /\ fault' = e
    /\ trace' = trace \o <<Raised(e)>>

\* the click: lines 46-48, up to the first yield
Train(sr, f0, spk, ignore) ==
    /\ pc = "idle"
    /\ target_sr' = sr
    /\ has_pitch_guidance' = (f0 = "Yes")
    /\ speaker_id' = spk
    /\ ignore_cache' = ignore
    /\ training_dir' = TrainingDir(model_name)
    /\ trace' = <<Yield(StatusDir(training_dir'))>>
    /\ status' = StatusDir(training_dir')
    /\ retval' = None
    /\ fault' = None
    /\ replaced' = FALSE
    /\ pc' = "l48"
    /\ UNCHANGED <<MODELS_DIR, model_name, dirs, files, saveVars>>

\* lines 50-55: wipe and make the training directory, then yield.  rmtree and
\* makedirs can raise, and what they did before raising stays done
SetupDir ==
    /\ pc = "l48"
    /\ \E rm \in {IF Exists(training_dir) /\ ignore_cache
                  THEN RmtreeRun(training_dir)
                  ELSE [ds |-> dirs, fs |-> files, err |-> None]} :
       \E mk \in {MakedirsRun(rm.ds, training_dir)} :
           \/ /\ rm.err # None
              /\ Raise(rm.err)
              /\ dirs' = rm.ds
              /\ files' = rm.fs
              /\ UNCHANGED status
           \/ /\ rm.err = None
              /\ mk.err # None
              /\ Raise(mk.err)
              /\ dirs' = mk.ds
              /\ files' = rm.fs
              /\ UNCHANGED status
           \/ /\ rm.err = None
              /\ mk.err = None
              /\ dirs' = mk.ds
              /\ files' = rm.fs
              /\ trace' = trace \o <<Did("makedirs"), Yield(StatusPreprocessing)>>
              /\ status' = StatusPreprocessing
              /\ pc' = "l55"
              /\ UNCHANGED fault
    /\ UNCHANGED <<MODELS_DIR, model_name, target_sr, has_pitch_guidance, training_dir,
                   speaker_id, ignore_cache, retval, replaced, saveVars>>

\* lines 56-58: SR_DICT[target_sr] is evaluated, then the call is made
CallPreprocess ==
    /\ pc = "l55"
    /\ \/ /\ target_sr \notin DOMAIN SR_DICT
          /\ Raise(<<"KeyError">>)
       \/ /\ target_sr \in DOMAIN SR_DICT
          /\ pc' = "in_preprocess"
          /\ trace' = trace \o <<Call("preprocess_dataset")>>
          /\ UNCHANGED fault
    /\ UNCHANGED <<MODELS_DIR, model_name, dirs, files, target_sr, has_pitch_guidance,
                   training_dir, speaker_id, ignore_cache, status, retval, replaced, saveVars>>

\* as StageRaises, with the exception caught and the call carrying on
StageRaisesCaught(at, f) ==
    /\ pc = at
    /\ trace' = trace \o <<Raised(<<"Exception", f>>)>>
    /\ pc' = CASE at = "in_preprocess" -> "l60"
               [] at = "in_extract_f0" -> "l63"
               [] at = "in_extract_feature" -> "l66"
               [] OTHER -> "done"
    /\ UNCHANGED <<MODELS_DIR, model_name, dirs, files, target_sr, has_pitch_guidance,
                   training_dir, speaker_id, ignore_cache, status, retval, fault, replaced,
                   saveVars>>

\* a stage raises: nothing in train catches it
StageRaises(at, f) ==
    /\ pc = at
    /\ Raise(<<"Exception", f>>)
    /\ UNCHANGED <<MODELS_DIR, model_name, dirs, files, target_sr, has_pitch_guidance,
                   training_dir, speaker_id, ignore_cache, status, retval, replaced, saveVars>>

\* as PreprocessReturns, without the yield of line 60
PreprocessReturnsNoYield(out) ==
    /\ pc = "in_preprocess"
    /\ dirs' = StageLeaves(dirs, gt_wavs_dir, out)
    /\ trace' = trace \o <<Return("preprocess_dataset")>>
    /\ pc' = "l60"
    /\ UNCHANGED <<MODELS_DIR, model_name, files, target_sr, has_pitch_guidance, training_dir,
                   speaker_id, ignore_cache, status, retval, fault, replaced, saveVars>>

\* preprocess_dataset returns; line 60
PreprocessReturns(out) ==
    /\ pc = "in_preprocess"
    /\ dirs' = StageLeaves(dirs, gt_wavs_dir, out)
    /\ trace' = trace \o <<Return("preprocess_dataset"), Yield(StatusF0)>>
    /\ status' = StatusF0
    /\ pc' = "l60"
    /\ UNCHANGED <<MODELS_DIR, model_name, files, target_sr, has_pitch_guidance, training_dir,
                   speaker_id,
                   ignore_cache, retval, fault, replaced, saveVars>>

\* line 61
CallExtractF0 ==
    /\ pc = "l60"
    /\ pc' = "in_extract_f0"
    /\ trace' = trace \o <<Call("extract_f0")>>
    /\ UNCHANGED <<MODELS_DIR, model_name, dirs, files, target_sr, has_pitch_guidance,
                   training_dir, speaker_id, ignore_cache, status, retval, fault, replaced, saveVars>>

\* extract_f0 returns; line 63
ExtractF0Returns(out) ==
    /\ pc = "in_extract_f0"
    /\ dirs' = StageLeaves(StageLeaves(dirs, f0_dir, out[1]), f0nsf_dir, out[2])
    /\ trace' = trace \o <<Return("extract_f0"), Yield(StatusFeatures)>>
    /\ status' = StatusFeatures
    /\ pc' = "l63"
    /\ UNCHANGED <<MODELS_DIR, model_name, files, target_sr, has_pitch_guidance, training_dir,
                   speaker_id,
                   ignore_cache, retval, fault, replaced, saveVars>>

\* line 64
CallExtractFeature ==
    /\ pc = "l63"
    /\ pc' = "in_extract_feature"
    /\ trace' = trace \o <<Call("extract_feature")>>
    /\ UNCHANGED <<MODELS_DIR, model_name, dirs, files, target_sr, has_pitch_guidance,
                   training_dir, speaker_id, ignore_cache, status, retval, fault, replaced, saveVars>>

\* extract_feature returns
ExtractFeatureReturns(out) ==
    /\ pc = "in_extract_feature"
    /\ dirs' = StageLeaves(dirs, co256_dir, out)
    /\ trace' = trace \o <<Return("extract_feature")>>
    /\ pc' = "l66"
    /\ UNCHANGED <<MODELS_DIR, model_name, files, target_sr, has_pitch_guidance, training_dir,
                   speaker_id,
                   ignore_cache, status, retval, fault, replaced, saveVars>>

\* what the listings of lines 69-79 raise, or None: the first one that fails
ListingError(pitch) ==
    LET ds == ListedSeq(pitch)
        bad == {i \in 1..Len(ds) : ListdirError(ds[i]) # None}
    IN  IF bad = {} THEN None
        ELSE ListdirError(ds[CHOOSE i \in bad : \A j \in bad : i <= j])

\* lines 66-125: list the folders, build opt, write filelist.txt, yield
BuildManifest ==
    /\ pc = "l66"
    /\ \E n \in {Resolve(dirs, filelist_path)} :
       \E err \in {IF ListingError(has_pitch_guidance) # None
                   THEN ListingError(has_pitch_guidance)
                   ELSE OpenErrorAt(n)} :
          \/ /\ err # None
             /\ Raise(err)
             /\ UNCHANGED <<dirs, files, status, replaced>>
          \/ /\ err = None
             /\ \E o \in Orders(ManifestNames(has_pitch_guidance)) :
                \E opt \in {Opt(o, target_sr, has_pitch_guidance, speaker_id)} :
                \E old \in {IF n \in DOMAIN files THEN Split(files[n], "\n") ELSE << >>} :
                    /\ files' = WriteFileAt(n, StrJoin("\n", opt))
                    /\ dirs' = AddEntry(dirs, Dirname(n), Basename(n))
                    /\ replaced' = \E i \in 1..Len(old) : \A j \in 1..Len(opt) : old[i] # opt[j]
             /\ trace' = trace \o <<Did("filelist"), Yield(StatusTraining)>>
             /\ status' = StatusTraining
             /\ pc' = "l125"
             /\ UNCHANGED fault
    /\ UNCHANGED <<MODELS_DIR, model_name, target_sr, has_pitch_guidance,
                   training_dir, speaker_id, ignore_cache, retval, saveVars>>

\* lines 122-123 fail.  Either open(filelist.txt, "w") fails and the file is as
\* it was, or the file has been opened, which creates it or empties it, and the
\* write fails after part of the text, possibly none, has reached it.
ManifestWriteRaises ==
    /\ pc = "l66"
    /\ ListingError(has_pitch_guidance) = None
    /\ OpenError(filelist_path) = None
    /\ Raise(<<"OSError">>)
    /\ \/ UNCHANGED <<dirs, files>>
       \/ \E n \in {Resolve(dirs, filelist_path)} :
          \E part \in UNION {Partials(StrJoin("\n", Opt(o, target_sr, has_pitch_guidance,
                                                          speaker_id))) :
                                o \in Orders(ManifestNames(has_pitch_guidance))} :
             /\ files' = WriteFileAt(n, part)
             /\ dirs' = AddEntry(dirs, Dirname(n), Basename(n))
    /\ UNCHANGED <<MODELS_DIR, model_name, target_sr, has_pitch_guidance,
                   training_dir, speaker_id, ignore_cache, status, retval, replaced, saveVars>>

\* lines 127-139
CallRunTraining ==
    /\ pc = "l125"
    /\ pc' = "in_run_training"
    /\ trace' = trace \o <<Call("run_training")>>
    /\ UNCHANGED <<MODELS_DIR, model_name, dirs, files, target_sr, has_pitch_guidance,
                   training_dir, speaker_id, ignore_cache, status, retval, fault, replaced, saveVars>>

\* as RunTrainingReturns, with "Training completed" yielded
RunTrainingReturnsYields ==
    /\ pc = "in_run_training"
    /\ trace' = trace \o <<Return("run_training"), Yield(TrainingCompleted)>>
    /\ status' = TrainingCompleted
    /\ pc' = "done"
    /\ UNCHANGED <<MODELS_DIR, model_name, dirs, files, target_sr, has_pitch_guidance,
                   training_dir, speaker_id, ignore_cache, retval, fault, replaced, saveVars>>

\* run_training returns; line 141: the generator returns, nothing is yielded
RunTrainingReturns ==
    /\ pc = "in_run_training"
    /\ trace' = trace \o <<Return("run_training")>>
    /\ retval' = TrainingCompleted
    /\ pc' = "done"
    /\ UNCHANGED <<MODELS_DIR, model_name, dirs, files, target_sr, has_pitch_guidance,
                   training_dir, speaker_id, ignore_cache, status, fault, replaced, saveVars>>

\* the event is over (the generator returned or raised): its locals are gone
\* and the button can start the next call
EventEnds ==
    /\ pc \in {"done", "aborted"}
    /\ pc' = "idle"
    /\ target_sr' = "40k"
    /\ has_pitch_guidance' = TRUE
    /\ training_dir' = << >>
    /\ speaker_id' = SpeakerMin
    /\ ignore_cache' = FALSE
    /\ trace' = << >>
    /\ retval' = None
    /\ fault' = None
    /\ replaced' = FALSE
    /\ UNCHANGED <<MODELS_DIR, model_name, dirs, files, status, saveVars>>

InitTrain ==
    /\ MODELS_DIR \in Roots
    /\ model_name \in ModelNames
    /\ \E pre \in Preexisting :
       \E root \in {Makedirs(RootOnly, MODELS_DIR)} :
          \/ /\ pre = "nothing"
             /\ dirs = root
             /\ files = << >>
          \/ /\ pre # "nothing"
             /\ \E n \in {Resolve(Makedirs(root, TrainingDir(model_name)),
                                  TrainingDir(model_name))} :
                \E at \in {IF pre = "file" THEN n ELSE Dirname(n)} :
                   /\ dirs = AddEntry(Makedirs(root, Dirname(at)), Dirname(at), Basename(at))
                   /\ files = (at :> << >>)
    /\ pc = "idle"
    /\ target_sr = "40k"
    /\ has_pitch_guidance = TRUE
    /\ training_dir = << >>
    /\ speaker_id = SpeakerMin
    /\ ignore_cache = FALSE
    /\ trace = << >>
    /\ status = << >>
    /\ retval = None
    /\ fault = None
    /\ replaced = FALSE

InitSave ==
    /\ ckpts = << >>
    /\ last = << >>
    /\ ref = << >>

Init == InitTrain /\ InitSave

Next ==
    \/ \E sr \in SrTags, f0 \in PitchChoices, spk \in SpeakerIds, ignore \in BOOLEAN :
          Train(sr, f0, spk, ignore)
    \/ SetupDir
    \/ CallPreprocess
    \/ StageRaises("in_preprocess", "preprocess_dataset")
    \/ \E out \in GtOutputs : PreprocessReturns(out)
    \/ CallExtractF0
    \/ StageRaises("in_extract_f0", "extract_f0")
    \/ \E out \in F0Outputs : ExtractF0Returns(out)
    \/ CallExtractFeature
    \/ StageRaises("in_extract_feature", "extract_feature")
    \/ \E out \in FeatureOutputs : ExtractFeatureReturns(out)
    \/ BuildManifest
    \/ ManifestWriteRaises
    \/ CallRunTraining
    \/ StageRaises("in_run_training", "run_training")
    \/ RunTrainingReturns
    \/ EventEnds

Spec == Init /\ [][Next]_vars

(***************************************************************************)
(* checkpoints.py                                                          *)
(***************************************************************************)
\* key.startswith(sub)
StartsWith(sub, key) == Len(key) >= Len(sub) /\ SubSeq(key, 1, Len(sub)) = sub

\* sub in key, both character sequences
Contains(sub, key) ==
    \E i \in 1..(Len(key) - Len(sub) + 1) : SubSeq(key, i, i + Len(sub) - 1) = sub

EncQ == <<"e", "n", "c", "_", "q">>

\* tensor.half() of a tensor holding the integer v, 0 <= v < 4096: float16 keeps
\* 11 significant bits, so above 2048 only even numbers exist; ties go to the
\* even significand
Half(v) ==
    IF v <= 2048 \/ v % 2 = 0 THEN v
    ELSE IF ((v - 1) \div 2) % 2 = 0 THEN v - 1 ELSE v + 1

\* lines 17-21
Weight(ckpt) == [key \in {k \in DOMAIN ckpt : ~Contains(EncQ, k)} |-> Half(ckpt[key])]

Preset40k ==
    << <<"spec_channels", 1025>>, <<"segment_size", 32>>, <<"inter_channels", 192>>,
       <<"hidden_channels", 192>>, <<"filter_channels", 768>>, <<"n_heads", 2>>,
       <<"n_layers", 6>>, <<"kernel_size", 3>>, <<"p_dropout", 0>>, <<"resblock", "1">>,
       <<"resblock_kernel_sizes", <<3, 7, 11>> >>,
       <<"resblock_dilation_sizes", << <<1, 3, 5>>, <<1, 3, 5>>, <<1, 3, 5>> >> >>,
       <<"upsample_rates", <<10, 10, 2, 2>> >>, <<"upsample_initial_channel", 512>>,
       <<"upsample_kernel_sizes", <<16, 16, 4, 4>> >>, <<"spk_embed_dim", 109>>,
       <<"gin_channels", 256>>, <<"sr", 40000>> >>

\* as Preset48k, with the upsample rates of the 32k preset
Preset48kRates ==
    << <<"spec_channels", 1025>>, <<"segment_size", 32>>, <<"inter_channels", 192>>,
       <<"hidden_channels", 192>>, <<"filter_channels", 768>>, <<"n_heads", 2>>,
       <<"n_layers", 6>>, <<"kernel_size", 3>>, <<"p_dropout", 0>>, <<"resblock", "1">>,
       <<"resblock_kernel_sizes", <<3, 7, 11>> >>,
       <<"resblock_dilation_sizes", << <<1, 3, 5>>, <<1, 3, 5>>, <<1, 3, 5>> >> >>,
       <<"upsample_rates", <<10, 4, 2, 2, 2>> >>, <<"upsample_initial_channel", 512>>,
       <<"upsample_kernel_sizes", <<16, 16, 4, 4, 4>> >>, <<"spk_embed_dim", 109>>,
       <<"gin_channels", 256>>, <<"sr", 48000>> >>

Preset48k ==
    << <<"spec_channels", 1025>>, <<"segment_size", 32>>, <<"inter_channels", 192>>,
       <<"hidden_channels", 192>>, <<"filter_channels", 768>>, <<"n_heads", 2>>,
       <<"n_layers", 6>>, <<"kernel_size", 3>>, <<"p_dropout", 0>>, <<"resblock", "1">>,
       <<"resblock_kernel_sizes", <<3, 7, 11>> >>,
       <<"resblock_dilation_sizes", << <<1, 3, 5>>, <<1, 3, 5>>, <<1, 3, 5>> >> >>,
       <<"upsample_rates", <<10, 6, 2, 2, 2>> >>, <<"upsample_initial_channel", 512>>,
       <<"upsample_kernel_sizes", <<16, 16, 4, 4, 4>> >>, <<"spk_embed_dim", 109>>,
       <<"gin_channels", 256>>, <<"sr", 48000>> >>

Preset32k ==
    << <<"spec_channels", 513>>, <<"segment_size", 32>>, <<"inter_channels", 192>>,
       <<"hidden_channels", 192>>, <<"filter_channels", 768>>, <<"n_heads", 2>>,
       <<"n_layers", 6>>, <<"kernel_size", 3>>, <<"p_dropout", 0>>, <<"resblock", "1">>,
       <<"resblock_kernel_sizes", <<3, 7, 11>> >>,
       <<"resblock_dilation_sizes", << <<1, 3, 5>>, <<1, 3, 5>>, <<1, 3, 5>> >> >>,
       <<"upsample_rates", <<10, 4, 2, 2, 2>> >>, <<"upsample_initial_channel", 512>>,
       <<"upsample_kernel_sizes", <<16, 16, 4, 4, 4>> >>, <<"spk_embed_dim", 109>>,
       <<"gin_channels", 256>>, <<"sr", 32000>> >>

\* a dict literal is a sequence of <<key, value>> items in insertion order
DictValues(cfg) == [i \in 1..Len(cfg) |-> cfg[i][2]]

\* cfg[key] of a dict that has the key
DictGet(cfg, key) == cfg[CHOOSE i \in 1..Len(cfg) : cfg[i][1] = key][2]

\* state_dict[key] = value
SetItem(state_dict, key, value) ==
    [k \in DOMAIN state_dict \cup {key} |-> IF k = key THEN value ELSE state_dict[k]]

\* write_config, lines 10-12
write_config(state_dict, cfg) ==
    SetItem(SetItem(state_dict, "config", DictValues(cfg)), "params", cfg)

\* os.path.join(MODELS_DIR, "checkpoints", f"{name}.pth")
CkptPath(name) == PathJoinAll(<<MODELS_DIR, <<"checkpoints">>, Cat(name, <<".", "pth">>)>>)

\* a state_dict shared by all calls: the one the previous call filled
ReusedStateDict == IF last = << >> THEN << >> ELSE ckpts[CkptPath(last[1].name)]

\* line 16: state_dict = OrderedDict()
NewStateDict == << >>

\* as WithPreset, with the 40k preset for every other tag
WithPresetDefault(state_dict, sr) ==
    IF sr = "48k" THEN write_config(state_dict, Preset48k)
    ELSE IF sr = "32k" THEN write_config(state_dict, Preset32k)
    ELSE write_config(state_dict, Preset40k)

\* lines 22-93
WithPreset(state_dict, sr) ==
    IF sr = "40k" THEN write_config(state_dict, Preset40k)
    ELSE IF sr = "48k" THEN write_config(state_dict, Preset48k)
    ELSE IF sr = "32k" THEN write_config(state_dict, Preset32k)
    ELSE state_dict

\* f"{epoch}epoch"
Info(epoch) == IntToStr(epoch) \o "epoch"

\* the state_dict handed to torch.save at line 97
Packaged(ckpt, sr, if_f0, epoch) ==
    LET d1 == SetItem(NewStateDict, "weight", Weight(ckpt))
        d2 == WithPreset(d1, sr)
        d3 == SetItem(d2, "info", Info(epoch))
        d4 == SetItem(d3, "sr", sr)
    IN  SetItem(d4, "f0", if_f0)

\* the fields of a persisted record other than the tensors
NonTensor(rec) == Restrict(rec, DOMAIN rec \ {"weight"})

\* save(ckpt, sr, if_f0, name, epoch), lines 15-97
save(ckpt, sr, if_f0, name, epoch) ==
    LET state_dict == Packaged(ckpt, sr, if_f0, epoch)
    IN  /\ ckpts' = [q \in DOMAIN ckpts \cup {CkptPath(name)} |->
                        IF q = CkptPath(name) THEN state_dict ELSE ckpts[q]]
        /\ last' = <<[ckpt |-> ckpt, sr |-> sr, if_f0 |-> if_f0, name |-> name,
                      epoch |-> epoch]>>
        /\ ref' = IF ref # << >> /\ ref[1].args # last'[1]
                  THEN <<[ref[1] EXCEPT !.between = TRUE]>>
                  ELSE ref
        /\ UNCHANGED trainVars

\* a reader loads the record the latest call persisted and keeps its arguments
\* and its fields other than the tensors; between: a save with other arguments
\* has run since
Remember ==
    /\ last # << >>
    /\ ref' = <<[args |-> last[1], fields |-> NonTensor(ckpts[CkptPath(last[1].name)]),
                  between |-> FALSE]>>
    /\ UNCHANGED <<ckpts, last, trainVars>>

\* what save is called with
KeyDec == <<"d", "e", "c", ".", "w">>
KeyEncQ == <<"e", "n", "c", "_", "q", ".", "w">>
KeyInner == <<"a", ".", "e", "n", "c", "_", "q">>
KeyEncP == <<"e", "n", "c", "_", "p">>
Ckpts == {(KeyDec :> 1) @@ (KeyEncQ :> 2) @@ (KeyInner :> 2049) @@ (KeyEncP :> 2051),
          (KeyEncQ :> 3)}
SaveTags == {"32k", "40k", "48k", "16k"}
F0Flags == {0, 1}
SaveNames == {<<"a">>, <<"b">>}
Epochs == {1, 100}

NextSave ==
    \E ckpt \in Ckpts, sr \in SaveTags, if_f0 \in F0Flags, name \in SaveNames,
       epoch \in Epochs :
        save(ckpt, sr, if_f0, name, epoch)

\* save does not look at the training directories: they start empty
InitClean == Init /\ files = << >>

SpecSave == InitClean /\ [][NextSave]_vars

\* repeated calls: fewer tags, and a reader that remembers a call
RepeatTags == {"40k", "16k"}
RepeatCkpts == {(KeyDec :> 1) @@ (KeyEncQ :> 2)}

NextRepeat ==
    \/ \E ckpt \in RepeatCkpts, sr \in RepeatTags, if_f0 \in F0Flags, name \in SaveNames,
          epoch \in Epochs :
          save(ckpt, sr, if_f0, name, epoch)
    \/ Remember

SpecRepeat == InitClean /\ [][NextRepeat]_vars

(***************************************************************************)
(* Properties of the manifest                                              *)
(***************************************************************************)
\* filelist.txt of the running call is written and the folders are as they
\* were when it was built
ManifestWritten == pc \in {"l125", "in_run_training", "done"}

\* the prefix of a file name before its first "."
Prefix(name) == SubSeq(name, 1, Find(name, ".", 1) - 1)

RequiredDirs == {gt_wavs_dir, co256_dir} \cup
                (IF has_pitch_guidance THEN {f0_dir, f0nsf_dir} ELSE {})

HasEntryFor(d, s) == \E name \in ListDir(d) : Prefix(name) = s

AllIdents == UNION {{Prefix(name) : name \in ListDir(d)} : d \in RequiredDirs}

Surviving == {s \in AllIdents : \A d \in RequiredDirs : HasEntryFor(d, s)}

LineOf(s) == SampleLine(s, has_pitch_guidance, speaker_id)

\* C1: once train has written filelist.txt, the file holds exactly one sample
\* line for every identifier that has an entry in each required folder, then the
\* mute line, and nothing else (whatever an earlier run left in the file); an
\* identifier without an entry in some required folder has no line.
ManifestIsIntersection ==
    ManifestWritten =>
        LET lines == FileLines(filelist_path)
            n == Cardinality(Surviving)
        IN  /\ Len(lines) = n + 1
            /\ lines[n + 1] = MuteLine(target_sr, has_pitch_guidance, speaker_id)
            /\ \A s \in Surviving : Cardinality({i \in 1..n : lines[i] = LineOf(s)}) = 1
            /\ \A i \in 1..n : \E s \in Surviving : lines[i] = LineOf(s)
            /\ \A d \in RequiredDirs : \A s \in AllIdents :
                  ~HasEntryFor(d, s) => \A i \in 1..Len(lines) : lines[i] # LineOf(s)

\* a rerun with pitch guidance has replaced an older filelist.txt, dropping a
\* line of it, and an identifier is left out although some folder has it
ManifestRewritten ==
    /\ ManifestWritten
    /\ replaced
    /\ has_pitch_guidance
    /\ Surviving # {}
    /\ Surviving # AllIdents

\* the required folders share no identifier: the mute line is all there is
ManifestMuteOnly ==
    /\ ManifestWritten
    /\ Surviving = {}
    /\ AllIdents # {}
    /\ FileLines(filelist_path) = <<MuteLine(target_sr, has_pitch_guidance, speaker_id)>>

\* C2, as stated: every path of a sample line names a file that is present
SampleFilesExist ==
    ManifestWritten =>
        LET lines == FileLines(filelist_path)
        IN  \A s \in AllIdents :
                (\E i \in 1..(Len(lines) - 1) : lines[i] = LineOf(s)) =>
                    /\ IsFile(GtWavPath(s))
                    /\ IsFile(Co256Path(s))
                    /\ has_pitch_guidance => IsFile(F0Path(s)) /\ IsFile(F0nsfPath(s))

\* C3, as stated: every line splits on "|" into 5 fields with pitch guidance
\* and 3 without, in the documented order, the last one the speaker id
LineHasDocumentedFields ==
    ManifestWritten =>
        LET lines == FileLines(filelist_path)
            k == IF has_pitch_guidance THEN 5 ELSE 3
        IN  \A i \in 1..Len(lines) :
                LET f == Split(lines[i], "|")
                    sample == i < Len(lines)
                IN  /\ Len(f) = k
                    /\ f[k] = <<IntToStr(speaker_id)>>
                    /\ Dirname(f[1]) = IF sample THEN gt_wavs_dir ELSE MuteDir(<<"0_gt_wavs">>)
                    /\ Dirname(f[2]) = IF sample THEN co256_dir ELSE MuteDir(<<"3_feature256">>)
                    /\ has_pitch_guidance =>
                          /\ Dirname(f[3]) = IF sample THEN f0_dir ELSE MuteDir(<<"2a_f0">>)
                          /\ Dirname(f[4]) = IF sample THEN f0nsf_dir ELSE MuteDir(<<"2b_f0nsf">>)

(***************************************************************************)
(* Properties of a train call                                              *)
(***************************************************************************)
Events == {trace[i] : i \in 1..Len(trace)}

IsYield(e) == e[1] = "yield"
IsRaise(e) == e[1] = "raise"

\* the values streamed so far, in order
RECURSIVE YieldsOf(_)
YieldsOf(t) ==
    IF t = << >> THEN << >>
    ELSE (IF IsYield(t[1]) THEN <<t[1][2]>> ELSE << >>) \o YieldsOf(Tail(t))

\* everything a call does when nothing goes wrong, in the order of the text
FullRun ==
    << Yield(StatusDir(training_dir)), Did("makedirs"),
       Yield(StatusPreprocessing), Call("preprocess_dataset"), Return("preprocess_dataset"),
       Yield(StatusF0), Call("extract_f0"), Return("extract_f0"),
       Yield(StatusFeatures), Call("extract_feature"), Return("extract_feature"),
       Did("filelist"),
       Yield(StatusTraining), Call("run_training"), Return("run_training") >>

\* what the call did before an exception, if any, ended it
Completed == IF trace # << >> /\ IsRaise(trace[Len(trace)])
             THEN SubSeq(trace, 1, Len(trace) - 1)
             ELSE trace

\* C8: what a train call has done is always an initial part of the fixed order
\* directory setup, preprocess, extract_f0, extract_feature, manifest write,
\* run_training: each step at most once, each after the previous one returned,
\* each external stage after its own status was yielded, run_training after
\* the manifest write.
StagesInOrder ==
    pc # "idle" =>
        /\ Len(Completed) <= Len(FullRun)
        /\ Completed = SubSeq(FullRun, 1, Len(Completed))
        /\ pc = "in_run_training" => HasText(filelist_path)

\* run_training has been called, after everything before it
TrainingStarted ==
    /\ pc = "in_run_training"
    /\ Len(trace) = 14
    /\ HasText(filelist_path)

\* an exception is the last event of a call, and the call is then aborted
FaultIsLast ==
    /\ \A i \in 1..Len(trace) : IsRaise(trace[i]) => i = Len(trace) /\ pc = "aborted"
    /\ fault # None => pc = "aborted"
    /\ pc = "aborted" =>
          /\ trace # << >>
          /\ trace[Len(trace)] = Raised(fault)
          /\ status = YieldsOf(trace)[Len(YieldsOf(trace))]
          /\ Did("filelist") \notin Events => Call("run_training") \notin Events

\* the step leaves every text file other than filelist.txt of the running call
\* as it was
OnlyManifestChanges ==
    \A q \in (DOMAIN files \cup DOMAIN files') \ {Resolve(dirs, filelist_path)} :
        q \in DOMAIN files /\ q \in DOMAIN files' /\ files'[q] = files[q]

\* the step writes no text file: those there are after it were there before,
\* with the same content
NoTextWritten == \A q \in DOMAIN files' : q \in DOMAIN files /\ files'[q] = files[q]

\* the step that raises leaves the Status box as it is, and the file system
\* too unless it is the directory setup, which may have removed or made
\* directories before it failed but has written no text, or the manifest write
\* itself that fails after the listings; an aborted call takes no further step
\* of its own, and the text files change only when the directory is wiped or
\* in the manifest write, logged when it succeeds
FaultStep ==
    /\ (pc' = "aborted" /\ pc # "aborted") =>
          /\ trace' = trace \o <<Raised(fault')>>
          /\ UNCHANGED status
          /\ \/ UNCHANGED <<dirs, files>>
             \/ pc = "l48" /\ NoTextWritten
             \/ /\ pc = "l66"
                /\ fault' = <<"OSError">>
                /\ ListingError(has_pitch_guidance) = None
                /\ OnlyManifestChanges
    /\ pc = "aborted" => pc' = "idle" /\ UNCHANGED <<dirs, files, status>>
    /\ files' # files =>
          \/ pc = "l48"
          \/ pc = "l66" /\ trace' = trace \o <<Did("filelist"), Yield(StatusTraining)>>
          \/ pc = "l66" /\ trace' = trace \o <<Raised(<<"OSError">>)>>

\* C9: an exception raised by any stage of a train call is not caught: it is
\* the last thing the call does, no later stage is invoked and no later status
\* is yielded; when it comes before the manifest write the call writes no
\* filelist.txt and never invokes run_training.
FaultAborts == []FaultIsLast /\ [][FaultStep]_vars

\* the directory setup raised on a regular file at the place of the training
\* directory: nothing was made, no stage ran
SetupFaulted ==
    /\ pc = "aborted"
    /\ fault \in {<<"NotADirectoryError">>, <<"FileExistsError">>}
    /\ status = StatusDir(training_dir)
    /\ IsFile(training_dir)
    /\ Len(trace) = 2

\* the wipe of a training directory named with a last component "." raised
\* after it had removed everything in the directory: the directory is there,
\* empty, with no manifest, and no stage ran
WipeFaulted ==
    /\ pc = "aborted"
    /\ fault = <<"OSError">>
    /\ ignore_cache
    /\ status = StatusDir(training_dir)
    /\ Basename(training_dir) = <<".">>
    /\ IsDir(training_dir)
    /\ ListDir(training_dir) = {}
    /\ ~HasText(filelist_path)
    /\ Len(trace) = 2

\* the manifest write failed partway in a call without pitch guidance: the
\* file is there, cut short, and run_training was not called
ManifestCutShort ==
    /\ pc = "aborted"
    /\ fault = <<"OSError">>
    /\ ~has_pitch_guidance
    /\ HasText(filelist_path)
    /\ ReadText(filelist_path) # << >>
    /\ Call("run_training") \notin Events

\* extract_f0 raised in a rerun: the older filelist.txt is still there, this
\* call wrote none and did not reach run_training
FaultBeforeManifest ==
    /\ pc = "aborted"
    /\ fault = <<"Exception", "extract_f0">>
    /\ status = StatusF0
    /\ HasText(filelist_path)
    /\ Did("filelist") \notin Events

\* C10: a call that completes has streamed exactly the five statuses, the last
\* one "Training..."; "Training completed" is the return value and is not
\* streamed, so the Status box still reads "Training...".
StatusesOfCompletedRun ==
    pc = "done" =>
        /\ YieldsOf(trace) = <<StatusDir(training_dir), StatusPreprocessing, StatusF0,
                               StatusFeatures, StatusTraining>>
        /\ retval = TrainingCompleted
        /\ \A i \in 1..Len(trace) : trace[i] # Yield(TrainingCompleted)
        /\ status = StatusTraining

RunCompleted ==
    /\ pc = "done"
    /\ trace[Len(trace)] = Return("run_training")
    /\ retval = TrainingCompleted

(***************************************************************************)
(* Properties of save                                                      *)
(***************************************************************************)
\* the record the latest call persisted
Persisted == ckpts[CkptPath(last[1].name)]

KnownTags == {"32k", "40k", "48k"}

\* C4: the preset depends on the sampling-rate tag alone: "40k" gives sr 40000,
\* 1025 spectral channels and upsample rates 10,10,2,2; "48k" gives 48000, 1025
\* and 10,6,2,2,2; "32k" gives 32000, 513 and 10,4,2,2,2; and config lists the
\* values of params in the order of its keys.
PresetByTag ==
    (last # << >> /\ last[1].sr \in KnownTags) =>
        LET tag == last[1].sr
            params == Persisted.params
            config == Persisted.config
        IN  /\ DictGet(params, "sr") =
                  (IF tag = "40k" THEN 40000 ELSE IF tag = "48k" THEN 48000 ELSE 32000)
            /\ DictGet(params, "spec_channels") = (IF tag = "32k" THEN 513 ELSE 1025)
            /\ DictGet(params, "upsample_rates") =
                  (IF tag = "40k" THEN <<10, 10, 2, 2>>
                   ELSE IF tag = "48k" THEN <<10, 6, 2, 2, 2>> ELSE <<10, 4, 2, 2, 2>>)
            /\ Len(config) = Len(params)
            /\ \A i \in 1..Len(params) : config[i] = params[i][2]

\* save ran with tag "48k", without pitch guidance, on the checkpoint of one key
Saved48k ==
    /\ last # << >>
    /\ last[1].sr = "48k"
    /\ last[1].if_f0 = 0
    /\ last[1].epoch = 100
    /\ DOMAIN last[1].ckpt = {KeyEncQ}
    /\ Len(Persisted.config) = 18

\* "enc_q" occurs in key
HasEncQ(key) ==
    \E i \in 1..Len(key) :
        /\ i + 4 <= Len(key)
        /\ key[i] = "e" /\ key[i + 1] = "n" /\ key[i + 2] = "c"
        /\ key[i + 3] = "_" /\ key[i + 4] = "q"

\* C5: the keys of the packaged weight mapping are exactly the keys of the
\* input mapping in which "enc_q" does not occur.
WeightKeys ==
    last # << >> =>
        DOMAIN Persisted.weight = {key \in DOMAIN last[1].ckpt : ~HasEncQ(key)}

\* an input with "enc_q" at the start of a key and inside another, and with
\* keys that stay
SavedMixedKeys ==
    /\ last # << >>
    /\ {KeyEncQ, KeyInner, KeyDec, KeyEncP} \subseteq DOMAIN last[1].ckpt
    /\ DOMAIN Persisted.weight = {KeyDec, KeyEncP}

\* C6: with a tag other than "32k", "40k", "48k" save still persists a record;
\* it has no config and no params, and weight, info, sr and f0 are set.
UnknownTagRecord ==
    (last # << >> /\ last[1].sr \notin KnownTags) =>
        /\ CkptPath(last[1].name) \in DOMAIN ckpts
        /\ DOMAIN Persisted = {"weight", "info", "sr", "f0"}
        /\ Persisted.info = (IF last[1].epoch = 1 THEN "1epoch" ELSE "100epoch")
        /\ Persisted.sr = last[1].sr
        /\ Persisted.f0 = last[1].if_f0

SavedUnknownTag ==
    /\ last # << >>
    /\ last[1].sr = "16k"
    /\ last[1].if_f0 = 1
    /\ Persisted.info = "100epoch"

\* C7: a call with the arguments of an earlier call persists the same config,
\* params, info, sr and f0 as the earlier call did, whatever ran in between.
SameArgsSameFields ==
    (ref # << >> /\ last # << >> /\ last[1] = ref[1].args) =>
        NonTensor(Persisted) = ref[1].fields

\* the remembered call was repeated after a call with other arguments
RepeatedAfterOther ==
    /\ ref # << >>
    /\ ref[1].between
    /\ last[1] = ref[1].args
    /\ "config" \notin DOMAIN ref[1].fields
    /\ Cardinality(DOMAIN ckpts) = 1

====
